---- MODULE Spec2Model ----
(***************************************************************************)
(* The connection-lifecycle manager of the edge agent.                     *)
(*                                                                         *)
(*   internal/client/client.go     Client: Start, Stop, the supervisor     *)
(*                                 loop startConnectionClient and the      *)
(*                                 command dispatcher processCommand       *)
(*   internal/tcp/client.go        TCPClient: the stream transport         *)
(*   internal/websocket/client.go  WSClient: the framed transport          *)
(*                                                                         *)
(* One Client owns one transport client (cfg.protocol chooses which).      *)
(* Every goroutine of the program is a process of the model: the           *)
(* supervisor loops started by Start, and the reader, writer and ping      *)
(* pumps started by every successful Connect.  A goroutine's position is   *)
(* its pc; a step of the model is the code between two points at which     *)
(* the goroutine can block or at which it takes or releases the            *)
(* transport's lock.                                                       *)
(***************************************************************************)
EXTENDS Integers, Sequences, FiniteSets, TLC

(***************************************************************************)
(* Bounds of the model.                                                    *)
(***************************************************************************)
\* successful Start calls, each of which launches one supervisor goroutine
MaxStarts == 2
\* transport handles the dialer hands out over the life of the client
MaxConns == 2
\* capacity of sendChan in the model (the source allocates 256 slots)
SendChanCap == 2
\* largest max_attempts a reconnect policy is drawn with
MaxPolicyAttempts == 3
\* envelopes the peer writes into one TCP stream
MaxSent == 2

\* the largest max_attempts of a policy whose delays are computed in 64 bits
MaxDelayAttempts == 12

\* maxReconnectAttempts when the policy leaves max_attempts at 0
DefaultMaxAttempts == 5

Absent == "<absent>"
NoHandle == 0

Handles == 1..MaxConns
Sups == 1..MaxStarts

Min(a, b) == IF a < b THEN a ELSE b

RECURSIVE Pow(_, _)
Pow(b, n) == IF n = 0 THEN 1 ELSE b * Pow(b, n - 1)

(***************************************************************************)
(* Envelopes.  A JSON object is a record of the keys the code reads or     *)
(* writes; a key the object does not carry has the value Absent.  top is   *)
(* the set of further top-level keys of an outbound object.                *)
(***************************************************************************)
NoPayload == [kind |-> Absent, id |-> Absent, success |-> FALSE, error |-> ""]

Envelope(type, id, payload, top) ==
    [type |-> type, id |-> id, payload |-> payload, top |-> top]

NoEnv == Envelope(Absent, Absent, NoPayload, {})

VARIABLES
    cfg,             \* config.Config, fixed for the life of the client
    running,         \* Client.running
    commandHandler,  \* the transport's commandHandler is set (not nil)
    stopPc,          \* position of the caller inside Client.Stop
    ret,             \* what the owner's last call of Start or Stop returned
    ctxDone,         \* the context given to Start has been cancelled
    sup,             \* the supervisor goroutines (startConnectionClient)
    conn,            \* the transport client's conn field
    connected,       \* the transport client's connected field
    sendChan,        \* the transport client's sendChan
    nextHandle,      \* handles the dialer has handed out so far
    live,            \* handles opened and not closed by this side
    peerClosed,      \* handles the peer or the network has closed
    readers,         \* the readPump goroutines
    writers,         \* the writePump goroutines
    pingers,         \* the pingPump goroutines (websocket only)
    wrote,           \* handles an envelope has been written to
    rt,              \* what handleMessage did with the last inbound message
    codec,           \* an envelope on its way through Marshal and Unmarshal
    stream,          \* the bytes the peer has written to a TCP connection
    inflight,        \* what the writers have taken from sendChan to write
    timer,           \* the backoff delay as the 64-bit time.Duration it is
    closes           \* how many times Close was called on each handle

vars == <<cfg, running, commandHandler, stopPc, ret, ctxDone, sup, conn,
          connected, sendChan, nextHandle, live, peerClosed, readers, writers,
          pingers, wrote, rt, codec, stream, inflight, timer, closes>>

clientVars == <<running, commandHandler, stopPc, ret>>
transportVars == <<conn, connected, live, closes>>
taskVars == <<readers, writers, pingers>>
ioVars == <<stream, inflight, timer>>

(***************************************************************************)
(* Inbound messages.  ok = FALSE is a byte string json.Unmarshal rejects.  *)
(* The payload is summarised by what the dispatcher reads of it: whether   *)
(* it is a JSON object (kind "map") and its "command" key.                 *)
(***************************************************************************)
Payload(kind, command) == [kind |-> kind, command |-> command]

Message(type, id, payload) ==
    [ok |-> TRUE, type |-> type, id |-> id, payload |-> payload]

Malformed == [ok |-> FALSE, type |-> Absent, id |-> Absent,
              payload |-> Payload(Absent, Absent)]

NoMsg == [ok |-> FALSE, type |-> "<none>", id |-> Absent,
          payload |-> Payload(Absent, Absent)]

SystemTypes == {"identification_success", "status_request", "ping"}
GatedTypes == {"api_call", "http_request", "ssh_command"}
CommandTypes == GatedTypes \cup {"quick_command", "custom"}

\* a string field of a decoded object: a missing key reads as ""
Str(v) == IF v = Absent THEN "" ELSE v

(***************************************************************************)
(* The dispatcher (client.go).  An executor is an external collaborator:   *)
(* oc is what it does when invoked ("ok", "fail": it reports failure,      *)
(* "err": the call returns an error).  Every handler returns the response  *)
(* and the executor it invoked ("none" when it invoked none).              *)
(***************************************************************************)
ExecOutcomes == {"ok", "fail", "err"}

Response(id, success, error) ==
    [kind |-> "response", id |-> id, success |-> success, error |-> error]

Handled(resp, executor) == [resp |-> resp, executor |-> executor]

handleAPICall(command, oc) ==
    IF command.payload.kind # "map"
    THEN Handled(Response(command.id, FALSE,
                          "Invalid payload format for api_call"), "none")
    ELSE IF oc = "err"
    THEN Handled(Response(command.id, FALSE,
                          "API call failed 1: request error"), "api_call")
    ELSE Handled(Response(command.id, oc = "ok",
                          IF oc = "ok" THEN "" ELSE "upstream error"),
                 "api_call")

handleHTTPRequest(command, oc) ==
    IF command.payload.kind # "map"
    THEN Handled(Response(command.id, FALSE,
                          "Invalid payload format for http_request"), "none")
    ELSE IF oc = "err"
    THEN Handled(Response(command.id, FALSE,
                          "HTTP request failed: request error"), "http_request")
    ELSE Handled(Response(command.id, oc = "ok",
                          IF oc = "ok" THEN "" ELSE "upstream error"),
                 "http_request")

\* handleSSHCommand that reports success whatever the exit code
handleSSHCommand_exitCodeIgnored(command, oc) ==
    IF command.payload.kind # "map"
    THEN Handled(Response(command.id, FALSE,
                          "Invalid payload format for ssh_command"), "none")
    ELSE IF Str(command.payload.command) = ""
    THEN Handled(Response(command.id, FALSE,
                          "command is required for ssh_command"), "none")
    ELSE IF oc = "err"
    THEN Handled(Response(command.id, FALSE,
                          "Command execution failed: exec error"),
                 "ssh_command")
    ELSE Handled(Response(command.id, TRUE, ""), "ssh_command")

handleSSHCommand(command, oc) ==
    IF command.payload.kind # "map"
    THEN Handled(Response(command.id, FALSE,
                          "Invalid payload format for ssh_command"), "none")
    ELSE IF Str(command.payload.command) = ""
    THEN Handled(Response(command.id, FALSE,
                          "command is required for ssh_command"), "none")
    ELSE IF oc = "err"
    THEN Handled(Response(command.id, FALSE,
                          "Command execution failed: exec error"),
                 "ssh_command")
    ELSE Handled(Response(command.id, oc = "ok", ""), "ssh_command")

handleQuickCommand(c, command, oc) ==
    IF command.payload.kind # "map"
    THEN Handled(Response(command.id, FALSE,
                          "Invalid payload format for quick_command"), "none")
    ELSE IF command.payload.command = Absent
    THEN Handled(Response(command.id, FALSE,
                          "command name is required for quick_command"),
                 "none")
    ELSE IF command.payload.command \notin DOMAIN c.quickCommands
    THEN Handled(Response(command.id, FALSE,
                          "Quick command '" \o command.payload.command
                              \o "' not found"), "none")
    ELSE LET quickCmd == c.quickCommands[command.payload.command]
             newCommand == [type |-> quickCmd.type, id |-> command.id,
                            payload |-> quickCmd.payload]
         IN  CASE quickCmd.type = "api_call" ->
                    handleAPICall(newCommand, oc)
               [] quickCmd.type = "http_request" ->
                    handleHTTPRequest(newCommand, oc)
               [] quickCmd.type = "ssh_command" ->
                    handleSSHCommand(newCommand, oc)
               [] OTHER ->
                    Handled(Response(command.id, FALSE,
                                     "Unsupported quick command type: "
                                         \o quickCmd.type), "none")

handleCustom(command) ==
    Handled(Response(command.id, TRUE, ""), "none")

Disabled(command) ==
    Handled(Response(command.id, FALSE,
                     command.type \o " commands are disabled"), "none")

\* processCommand without the gate of ssh_command
processCommand_ungatedSSH(c, command, oc) ==
    CASE command.type = "api_call" ->
            IF ~c.enabledCommands.api_call
            THEN Disabled(command) ELSE handleAPICall(command, oc)
      [] command.type = "http_request" ->
            IF ~c.enabledCommands.http_request
            THEN Disabled(command) ELSE handleHTTPRequest(command, oc)
      [] command.type = "ssh_command" -> handleSSHCommand(command, oc)
      [] command.type = "quick_command" -> handleQuickCommand(c, command, oc)
      [] command.type = "custom" -> handleCustom(command)
      [] OTHER ->
            Handled(Response(command.id, FALSE,
                             "Unknown command type: " \o command.type), "none")

processCommand(c, command, oc) ==
    CASE command.type = "api_call" ->
            IF ~c.enabledCommands.api_call
            THEN Disabled(command) ELSE handleAPICall(command, oc)
      [] command.type = "http_request" ->
            IF ~c.enabledCommands.http_request
            THEN Disabled(command) ELSE handleHTTPRequest(command, oc)
      [] command.type = "ssh_command" ->
            IF ~c.enabledCommands.ssh_command
            THEN Disabled(command) ELSE handleSSHCommand(command, oc)
      [] command.type = "quick_command" -> handleQuickCommand(c, command, oc)
      [] command.type = "custom" -> handleCustom(command)
      [] OTHER ->
            Handled(Response(command.id, FALSE,
                             "Unknown command type: " \o command.type), "none")

(***************************************************************************)
(* The handlers Start installs in the transport.  Each returns the reply   *)
(* envelope and the executor processCommand invoked.                       *)
(***************************************************************************)
CommandOf(message) ==
    [type |-> Str(message.type), id |-> Str(message.id),
     payload |-> message.payload]

handleTCPCommand(c, message, oc) ==
    LET r == processCommand(c, CommandOf(message), oc)
    IN  [reply |-> Envelope("command_response", r.resp.id, r.resp, {}),
         executor |-> r.executor]

handleWebSocketCommand(c, message, oc) ==
    LET r == processCommand(c, CommandOf(message), oc)
    IN  [reply |-> Envelope("command_response", Str(message.id), r.resp, {}),
         executor |-> r.executor]

commandHandlerOf(c, message, oc) ==
    IF c.protocol = "tcp" THEN handleTCPCommand(c, message, oc)
    ELSE handleWebSocketCommand(c, message, oc)


(***************************************************************************)
(* handleMessage of the two transports.  The result says whether the       *)
(* installed command handler was invoked, which executor it invoked, the   *)
(* reply the transport goes on to send (NoEnv: none) and whether the reply *)
(* goes through SendCommand (which checks the connected flag) or straight  *)
(* into sendChan.                                                          *)
(***************************************************************************)
PayloadOf(kind) == [NoPayload EXCEPT !.kind = kind]

Routed(handled, executor, reply, viaSendCommand) ==
    [handled |-> handled, executor |-> executor, reply |-> reply,
     viaSendCommand |-> viaSendCommand]

NotRouted == Routed(FALSE, "none", NoEnv, FALSE)

\* tcpHandleMessage whose switch has no case for "ping"
tcpHandleMessage_noPingCase(c, handlerSet, m, oc) ==
    IF ~m.ok THEN NotRouted
    ELSE IF m.type = "identification_success" THEN NotRouted
    ELSE IF m.type = "status_request"
    THEN Routed(FALSE, "none",
                Envelope("status_response", Absent, NoPayload,
                         {"connected", "client_id", "timestamp"}), TRUE)
    ELSE IF handlerSet
    THEN LET r == handleTCPCommand(c, m, oc)
         IN  Routed(TRUE, r.executor, r.reply, TRUE)
    ELSE NotRouted

tcpHandleMessage(c, handlerSet, m, oc) ==
    IF ~m.ok THEN NotRouted
    ELSE IF m.type = "identification_success" THEN NotRouted
    ELSE IF m.type = "status_request"
    THEN Routed(FALSE, "none",
                Envelope("status_response", Absent, NoPayload,
                         {"connected", "client_id", "timestamp"}), TRUE)
    ELSE IF m.type = "ping"
    THEN Routed(FALSE, "none",
                Envelope("pong", Absent, NoPayload, {"timestamp"}), TRUE)
    ELSE IF handlerSet
    THEN LET r == handleTCPCommand(c, m, oc)
         IN  Routed(TRUE, r.executor, r.reply, TRUE)
    ELSE NotRouted

\* wsHandleMessage that goes on after a failed json.Unmarshal
wsHandleMessage_noDecodeCheck(c, handlerSet, m, oc) ==
    IF m.ok /\ m.type = "identification_success" THEN NotRouted
    ELSE IF m.ok /\ m.type = "status_request"
    THEN Routed(FALSE, "none",
                Envelope("status_response", Str(m.id), PayloadOf("status"),
                         {}), TRUE)
    ELSE IF m.ok /\ m.type = "ping"
    THEN Routed(FALSE, "none",
                Envelope("pong", Str(m.id), PayloadOf("timestamp"), {}), TRUE)
    ELSE IF handlerSet
    THEN LET r == handleWebSocketCommand(c, m, oc)
         IN  Routed(TRUE, r.executor, r.reply, FALSE)
    ELSE NotRouted

wsHandleMessage(c, handlerSet, m, oc) ==
    IF ~m.ok THEN NotRouted
    ELSE IF m.type = "identification_success" THEN NotRouted
    ELSE IF m.type = "status_request"
    THEN Routed(FALSE, "none",
                Envelope("status_response", Str(m.id), PayloadOf("status"),
                         {}), TRUE)
    ELSE IF m.type = "ping"
    THEN Routed(FALSE, "none",
                Envelope("pong", Str(m.id), PayloadOf("timestamp"), {}), TRUE)
    ELSE IF handlerSet
    THEN LET r == handleWebSocketCommand(c, m, oc)
         IN  Routed(TRUE, r.executor, r.reply, FALSE)
    ELSE NotRouted

handleMessage(c, handlerSet, m, oc) ==
    IF c.protocol = "tcp" THEN tcpHandleMessage(c, handlerSet, m, oc)
    ELSE wsHandleMessage(c, handlerSet, m, oc)

(***************************************************************************)
(* What the router does with the value an installed handler returned.  The *)
(* stream transport's handler returns a map, nil for no response; the      *)
(* framed transport's handler returns a WSMessage value, whose Type is ""  *)
(* for no response.                                                        *)
(***************************************************************************)
HandlerResult(isNil, env) == [isNil |-> isNil, env |-> env]

AfterHandler(send, env, viaSendCommand) ==
    [send |-> send, env |-> env, viaSendCommand |-> viaSendCommand]

\* if response != nil { c.SendCommand(response) }
tcpAfterHandler(response) ==
    IF response.isNil THEN AfterHandler(FALSE, NoEnv, TRUE)
    ELSE AfterHandler(TRUE, response.env, TRUE)

\* wsAfterHandler without the test of response.Type
wsAfterHandler_noTypeCheck(response) ==
    AfterHandler(TRUE, response.env, FALSE)

\* if response.Type != "" { select { case c.sendChan <- responseData: ... } }
wsAfterHandler(response) ==
    IF Str(response.env.type) = "" THEN AfterHandler(FALSE, NoEnv, FALSE)
    ELSE AfterHandler(TRUE, response.env, FALSE)

afterHandler(c, response) ==
    IF c.protocol = "tcp" THEN tcpAfterHandler(response)
    ELSE wsAfterHandler(response)

\* the identification Connect sends, and the supervisor's heartbeat
Identification(c) ==
    IF c.protocol = "tcp"
    THEN Envelope("identify", Absent, NoPayload, {"client_id", "timestamp"})
    ELSE Envelope("identification", "init", PayloadOf("identify"), {})

Heartbeat == Envelope("heartbeat", "heartbeat", PayloadOf("stats"), {})

(***************************************************************************)
(* Goroutine records.                                                      *)
(***************************************************************************)
\* attempts is reconnectAttempts, delay the running Sleep's argument, h the
\* handle the running Connect dialled, cause why the loop returned.  tries and
\* waits observe the loop: the Connect calls and the backoff sleeps since it
\* last set reconnectAttempts to 0.
NoSup == [pc |-> "none", attempts |-> 0, delay |-> 0, h |-> NoHandle,
          cause |-> "none", tries |-> 0, waits |-> 0]
NoReader == [pc |-> "none", h |-> NoHandle, out |-> NoEnv]
\* outcome is what the executor that was invoked did
NoRt == [in |-> NoMsg, handled |-> FALSE, executor |-> "none",
         outcome |-> "none", reply |-> NoEnv]

(***************************************************************************)
(* Configurations.                                                         *)
(***************************************************************************)
Policy(enabled, maxAttempts, initialDelay, maxDelay, mult2) ==
    [enabled |-> enabled, maxAttempts |-> maxAttempts,
     initialDelay |-> initialDelay, maxDelay |-> maxDelay,
     \* backoff_multiplier in halves: 3 is the multiplier 1.5
     mult2 |-> mult2]

QuickTemplate(type) == [type |-> type, payload |-> Payload("map", "ls")]

Config(protocol, reconnect, enabledCommands, quickType) ==
    [protocol |-> protocol, reconnect |-> reconnect,
     enabledCommands |-> enabledCommands,
     quickCommands |-> [n \in {"restart"} |-> QuickTemplate(quickType)]]

Protocols == {"tcp", "websocket"}
AllEnabled == [api_call |-> TRUE, http_request |-> TRUE, ssh_command |-> TRUE]
EnabledFlags == [api_call : BOOLEAN, http_request : BOOLEAN,
                 ssh_command : BOOLEAN]

(***************************************************************************)
(* The codec: json.Marshal on the way out, json.Unmarshal on the way in.   *)
(* A JSON text is the sequence of its tokens; the characters of a string   *)
(* token are kept whole, the digits of a number token are kept one by one. *)
(* A payload is a Go value of the kinds json produces and accepts for      *)
(* interface{}: nil, bool, string, integer, []interface{} and              *)
(* map[string]interface{}.  An integer is the pair hi * Limb + lo, which   *)
(* holds the 54 bits the conversion to float64 is about.                   *)
(***************************************************************************)
Limb == Pow(2, 27)

Num(hi, lo) == [hi |-> hi, lo |-> lo]

JV(k, b, n, s, items, members) ==
    [k |-> k, b |-> b, n |-> n, s |-> s, items |-> items, members |-> members]

JNull == JV("null", FALSE, Num(0, 0), "", <<>>, {})
JBool(b) == JV("bool", b, Num(0, 0), "", <<>>, {})
JNum(n) == JV("number", FALSE, n, "", <<>>, {})
JStr(str) == JV("string", FALSE, Num(0, 0), str, <<>>, {})
JArr(items) == JV("array", FALSE, Num(0, 0), "", items, {})
\* members is a set of key/value pairs with distinct keys
JObj(members) == JV("object", FALSE, Num(0, 0), "", <<>>, members)
Member(key, val) == [key |-> key, val |-> val]

Tok(t, str, digits) == [t |-> t, s |-> str, digits |-> digits]
Punct(t) == Tok(t, "", <<>>)
StrTok(str) == Tok("string", str, <<>>)
NumTok(digits) == Tok("number", "", digits)

\* strconv.AppendInt: the decimal digits of an integer, most significant
\* first
RECURSIVE FormatDigits(_)
FormatDigits(n) ==
    IF n = Num(0, 0) THEN <<>>
    ELSE LET t == (n.hi % 10) * Limb + n.lo
         IN  Append(FormatDigits(Num(n.hi \div 10, t \div 10)), t % 10)

FormatInt(n) == IF n = Num(0, 0) THEN <<0>> ELSE FormatDigits(n)

\* the integer a string of decimal digits denotes
RECURSIVE ParseDigits(_)
ParseDigits(digits) ==
    IF digits = <<>> THEN Num(0, 0)
    ELSE LET n == ParseDigits(SubSeq(digits, 1, Len(digits) - 1))
             t == n.lo * 10 + digits[Len(digits)]
         IN  Num(n.hi * 10 + t \div Limb, t % Limb)

\* strconv.ParseFloat(s, 64) of an integer below 2^54: the nearest float64,
\* a tie going to the even mantissa.  Below 2^53 every integer is a
\* float64; from 2^53 on only the even ones are.
Float64(n) ==
    IF n.hi < Pow(2, 26) \/ n.lo % 2 = 0 THEN n
    ELSE IF n.lo % 4 = 1 THEN Num(n.hi, n.lo - 1)
    ELSE IF n.lo + 1 = Limb THEN Num(n.hi + 1, 0)
    ELSE Num(n.hi, n.lo + 1)

\* json.Marshal sorts the keys of a map
SortedKeys == <<"command", "env", "id", "payload", "type">>

RECURSIVE Marshal(_)
RECURSIVE MarshalItems(_)
RECURSIVE MarshalMembers(_, _)

Marshal(v) ==
    CASE v.k = "null" -> <<Punct("null")>>
      [] v.k = "bool" -> <<Punct(IF v.b THEN "true" ELSE "false")>>
      [] v.k = "string" -> <<StrTok(v.s)>>
      [] v.k = "number" -> <<NumTok(FormatInt(v.n))>>
      [] v.k = "array" ->
            <<Punct("[")>> \o MarshalItems(v.items) \o <<Punct("]")>>
      [] v.k = "object" ->
            <<Punct("{")>> \o MarshalMembers(v.members, SortedKeys)
                \o <<Punct("}")>>

MarshalItems(items) ==
    IF items = <<>> THEN <<>>
    ELSE Marshal(Head(items))
             \o (IF Len(items) > 1 THEN <<Punct(",")>> ELSE <<>>)
             \o MarshalItems(Tail(items))

MarshalMembers(members, keys) ==
    IF keys = <<>> THEN <<>>
    ELSE LET here == {m \in members : m.key = Head(keys)}
             rest == MarshalMembers(members, Tail(keys))
         IN  IF here = {} THEN rest
             ELSE LET m == CHOOSE x \in here : TRUE
                  IN  <<StrTok(m.key), Punct(":")>> \o Marshal(m.val)
                          \o (IF rest = <<>> THEN <<>> ELSE <<Punct(",")>>)
                          \o rest

\* the decoder: the value read and the tokens that follow it
Parsed(ok, val, rest) == [ok |-> ok, val |-> val, rest |-> rest]
SyntaxError == Parsed(FALSE, JNull, <<>>)

RECURSIVE ParseValue(_)
RECURSIVE ParseItems(_, _)
RECURSIVE ParseMembers(_, _)

\* decoding into interface{}: every number becomes a float64
ParseValue(toks) ==
    IF toks = <<>> THEN SyntaxError
    ELSE LET t == Head(toks)
             r == Tail(toks)
         IN  CASE t.t = "null" -> Parsed(TRUE, JNull, r)
               [] t.t = "true" -> Parsed(TRUE, JBool(TRUE), r)
               [] t.t = "false" -> Parsed(TRUE, JBool(FALSE), r)
               [] t.t = "string" -> Parsed(TRUE, JStr(t.s), r)
               [] t.t = "number" ->
                     Parsed(TRUE, JNum(Float64(ParseDigits(t.digits))), r)
               [] t.t = "[" ->
                     IF r # <<>> /\ Head(r).t = "]"
                     THEN Parsed(TRUE, JArr(<<>>), Tail(r))
                     ELSE ParseItems(r, <<>>)
               [] t.t = "{" ->
                     IF r # <<>> /\ Head(r).t = "}"
                     THEN Parsed(TRUE, JObj({}), Tail(r))
                     ELSE ParseMembers(r, {})
               [] OTHER -> SyntaxError

ParseItems(toks, acc) ==
    LET p == ParseValue(toks)
    IN  IF ~p.ok \/ p.rest = <<>> THEN SyntaxError
        ELSE IF Head(p.rest).t = ","
        THEN ParseItems(Tail(p.rest), Append(acc, p.val))
        ELSE IF Head(p.rest).t = "]"
        THEN Parsed(TRUE, JArr(Append(acc, p.val)), Tail(p.rest))
        ELSE SyntaxError

ParseMembers(toks, acc) ==
    IF Len(toks) < 3 \/ toks[1].t # "string" \/ toks[2].t # ":"
    THEN SyntaxError
    ELSE LET p == ParseValue(SubSeq(toks, 3, Len(toks)))
             \* a key that comes again replaces the earlier one
             members == {m \in acc : m.key # toks[1].s}
                            \cup {Member(toks[1].s, p.val)}
         IN  IF ~p.ok \/ p.rest = <<>> THEN SyntaxError
             ELSE IF Head(p.rest).t = ","
             THEN ParseMembers(Tail(p.rest), members)
             ELSE IF Head(p.rest).t = "}"
             THEN Parsed(TRUE, JObj(members), Tail(p.rest))
             ELSE SyntaxError

\* json.Unmarshal of a whole message into interface{}
Unmarshal(data) ==
    LET p == ParseValue(data)
    IN  IF p.ok /\ p.rest = <<>> THEN p ELSE SyntaxError

\* the value under a key of a decoded object, nil when the key is missing
Field(obj, key) ==
    LET here == {m \in obj.members : m.key = key}
    IN  IF here = {} THEN JNull ELSE (CHOOSE m \in here : TRUE).val

\* what a receiver holds after decoding: (type, payload, id), or an error
Tuple(type, payload, id) == [type |-> type, payload |-> payload, id |-> id]
Decoded(ok, type, payload, id) ==
    [ok |-> ok, type |-> type, payload |-> payload, id |-> id]
DecodeError == Decoded(FALSE, "", JNull, "")

\* WSClient.SendCommand: json.Marshal(WSMessage{Type, Payload, ID}), the
\* fields in the order of the struct
wsEncode(e) ==
    <<Punct("{"), StrTok("type"), Punct(":"), StrTok(e.type), Punct(","),
      StrTok("payload"), Punct(":")>>
        \o Marshal(e.payload)
        \o <<Punct(","), StrTok("id"), Punct(":"), StrTok(e.id), Punct("}")>>

\* WSClient.handleMessage: json.Unmarshal(data, &message) with message a
\* WSMessage; a string field takes a string or null, anything else is an
\* error
wsDecode(data) ==
    LET u == Unmarshal(data)
        type == Field(u.val, "type")
        id == Field(u.val, "id")
    IN  IF ~u.ok THEN DecodeError
        ELSE IF u.val.k = "null" THEN Decoded(TRUE, "", JNull, "")
        ELSE IF u.val.k # "object" THEN DecodeError
        ELSE IF type.k \notin {"string", "null"} THEN DecodeError
        ELSE IF id.k \notin {"string", "null"} THEN DecodeError
        ELSE Decoded(TRUE, type.s, Field(u.val, "payload"), id.s)

\* TCPClient.SendCommand: json.Marshal of the map handleTCPCommand builds
tcpEncode(e) ==
    Marshal(JObj({Member("type", JStr(e.type)), Member("payload", e.payload),
                  Member("id", JStr(e.id))}))

\* TCPClient.handleMessage: json.Unmarshal into a map, then the three
\* reads of handleTCPCommand; a key that is no string reads as ""
tcpDecode(data) ==
    LET u == Unmarshal(data)
        type == Field(u.val, "type")
        id == Field(u.val, "id")
    IN  IF ~u.ok THEN DecodeError
        ELSE IF u.val.k \notin {"object", "null"} THEN DecodeError
        ELSE Decoded(TRUE,
                     IF type.k = "string" THEN type.s ELSE "",
                     Field(u.val, "payload"),
                     IF id.k = "string" THEN id.s ELSE "")

Encode(c, e) == IF c.protocol = "tcp" THEN tcpEncode(e) ELSE wsEncode(e)
Decode(c, data) == IF c.protocol = "tcp" THEN tcpDecode(data)
                   ELSE wsDecode(data)

\* unread: the bytes written by the peer and not yet returned by a Read;
\* sent: the envelopes the peer encoded into them; dispatched: the messages
\* handleMessage decoded and passed on to the router
NoStream == [unread |-> <<>>, sent |-> <<>>, dispatched |-> <<>>]

NoCodec == [pc |-> "idle", env |-> Tuple("", JNull, ""), wire |-> <<>>,
            out |-> DecodeError]

\* NewClient, NewTCPClient, NewWSClient: the state after construction
(***************************************************************************)
(* time.Duration is an int64 of nanoseconds.  A value is four 16-bit words, *)
(* least significant first, in two's complement; the product of a value   *)
(* and a factor is kept modulo 2^64, as Go's multiplication keeps it.      *)
(***************************************************************************)
Word == Pow(2, 16)

Zero64 == <<0, 0, 0, 0>>

\* time.Second: 1000000000 = 15258 * 2^16 + 51712
Second == <<51712, 15258, 0, 0>>

\* delay *= f, for a factor 0 <= f < 2^15
Mul64(d, f) ==
    LET p1 == d[1] * f
        p2 == d[2] * f + p1 \div Word
        p3 == d[3] * f + p2 \div Word
        p4 == d[4] * f + p3 \div Word
    IN  <<p1 % Word, p2 % Word, p3 % Word, p4 % Word>>

Negative64(d) == d[4] >= Word \div 2

\* a < b on int64
Less64(a, b) ==
    IF Negative64(a) # Negative64(b) THEN Negative64(a)
    ELSE \/ a[4] < b[4]
         \/ a[4] = b[4] /\ a[3] < b[3]
         \/ a[4] = b[4] /\ a[3] = b[3] /\ a[2] < b[2]
         \/ a[4] = b[4] /\ a[3] = b[3] /\ a[2] = b[2] /\ a[1] < b[1]

Min64(a, b) == IF Less64(b, a) THEN b ELSE a

Seconds(k) == Mul64(Second, k)

NoTimer == [pc |-> "none", initialDelay |-> Zero64, maxDelay |-> Zero64,
            mult2 |-> 0, maxAttempts |-> 0, attempts |-> 0,
            delay |-> Zero64, last |-> Zero64]

InitWith(configs) ==
    /\ cfg \in configs
    /\ running = FALSE
    /\ commandHandler = FALSE
    /\ stopPc = "idle"
    /\ ret = "none"
    /\ ctxDone = FALSE
    /\ sup = [i \in Sups |-> NoSup]
    /\ conn = NoHandle
    /\ connected = FALSE
    /\ sendChan = <<>>
    /\ nextHandle = 0
    /\ live = {}
    /\ peerClosed = {}
    /\ readers = [t \in Handles |-> NoReader]
    /\ writers = [t \in Handles |-> "none"]
    /\ pingers = [t \in Handles |-> "none"]
    /\ wrote = {}
    /\ rt = NoRt
    /\ codec = NoCodec
    /\ stream = NoStream
    /\ inflight = <<>>
    /\ timer = NoTimer
    /\ closes = [h \in Handles |-> 0]

(***************************************************************************)
(* The transport client: Disconnect and the two halves of SendCommand.     *)
(***************************************************************************)
\* Disconnect that clears the flag and leaves the connection open
Disconnect_flagOnly ==
    /\ connected' = FALSE
    /\ live' = live
    /\ conn' = conn
    /\ closes' = closes

\* Close calls counted on the handle c.conn holds
Closed(h) == IF h \in Handles THEN [closes EXCEPT ![h] = @ + 1] ELSE closes

\* Disconnect without its `if !c.connected { return nil }`
Disconnect_noGuard ==
    /\ connected' = FALSE
    /\ live' = live \ {conn}
    /\ conn' = conn
    /\ closes' = Closed(conn)

\* TCPClient.Disconnect / WSClient.Disconnect, under the client's lock
Disconnect ==
    /\ connected' = FALSE
    /\ live' = IF connected THEN live \ {conn} ELSE live
    /\ conn' = conn
    /\ closes' = IF connected THEN Closed(conn) ELSE closes

\* Enqueue into a channel that always has room
Enqueue_unbounded(env) == sendChan' = Append(sendChan, env)

\* the send of SendCommand's select: there is room in sendChan
Enqueue(env) ==
    /\ Len(sendChan) < SendChanCap
    /\ sendChan' = Append(sendChan, env)

\* the time.After(5s) of the select: sendChan stayed full, the envelope is
\* dropped
EnqueueTimeout ==
    /\ Len(sendChan) >= SendChanCap
    /\ sendChan' = sendChan

(***************************************************************************)
(* Client.Start and Client.Stop, called by the owner of the client.  ret   *)
(* is the call's return value, with the return statement it came from      *)
(* where two of them return the same value.                                *)
(***************************************************************************)
StartNil == "Start: nil"
StartAlreadyRunning == "Start: client is already running"
StopNil == "Stop: nil"
StopNotRunning == "Stop: nil (not running)"

\* starts is the number of supervisor goroutines the run may launch
FreeSup(starts) == {i \in 1..starts : sup[i].pc = "none"}

\* Start without the test of c.running
Start_noGuard(starts) ==
    /\ stopPc = "idle"
    /\ FreeSup(starts) # {}
    /\ running' = TRUE
    /\ commandHandler' = TRUE
    /\ ret' = StartNil
    /\ LET i == CHOOSE j \in FreeSup(starts) :
                    \A k \in FreeSup(starts) : j <= k
       IN  sup' = [sup EXCEPT ![i] = [NoSup EXCEPT !.pc = "loop"]]
    /\ UNCHANGED <<cfg, codec, ioVars, stopPc, ctxDone, transportVars, sendChan,
                   nextHandle, peerClosed, taskVars, wrote, rt>>

Start(starts) ==
    /\ stopPc = "idle"
    /\ IF running
       THEN /\ ret' = StartAlreadyRunning
            /\ UNCHANGED <<cfg, codec, ioVars, running, commandHandler, stopPc, ctxDone,
                           sup, transportVars, sendChan, nextHandle,
                           peerClosed, taskVars, wrote, rt>>
       ELSE /\ FreeSup(starts) # {}
            /\ running' = TRUE
            /\ commandHandler' = TRUE
            /\ ret' = StartNil
            /\ LET i == CHOOSE j \in FreeSup(starts) :
                            \A k \in FreeSup(starts) : j <= k
               IN  sup' = [sup EXCEPT ![i] = [NoSup EXCEPT !.pc = "loop"]]
            /\ UNCHANGED <<cfg, codec, ioVars, stopPc, ctxDone, transportVars, sendChan,
                           nextHandle, peerClosed, taskVars, wrote, rt>>

\* StopBegin without the early return of a client that is not running
StopBegin_noGuard ==
    /\ stopPc = "idle"
    /\ running' = FALSE
    /\ stopPc' = "disconnect"
    /\ UNCHANGED <<cfg, codec, ioVars, commandHandler, ret, ctxDone, sup, transportVars,
                   sendChan, nextHandle, peerClosed, taskVars, wrote, rt>>

\* Stop up to the release of runningMux
StopBegin ==
    /\ stopPc = "idle"
    /\ IF ~running
       THEN /\ ret' = StopNotRunning
            /\ UNCHANGED <<cfg, codec, ioVars, running, commandHandler, stopPc, ctxDone,
                           sup, transportVars, sendChan, nextHandle,
                           peerClosed, taskVars, wrote, rt>>
       ELSE /\ running' = FALSE
            /\ stopPc' = "disconnect"
            /\ UNCHANGED <<cfg, codec, ioVars, commandHandler, ret, ctxDone, sup,
                           transportVars, sendChan, nextHandle, peerClosed,
                           taskVars, wrote, rt>>

\* Stop's Disconnect of the transport client, after which Stop returns
StopDisconnect ==
    /\ stopPc = "disconnect"
    /\ Disconnect
    /\ stopPc' = "idle"
    /\ ret' = StopNil
    /\ UNCHANGED <<cfg, codec, ioVars, running, commandHandler, ctxDone, sup, sendChan,
                   nextHandle, peerClosed, taskVars, wrote, rt>>

\* the owner cancels the context it gave to Start
CancelCtx ==
    /\ ~ctxDone
    /\ ctxDone' = TRUE
    /\ UNCHANGED <<cfg, codec, ioVars, clientVars, sup, transportVars, sendChan, nextHandle,
                   peerClosed, taskVars, wrote, rt>>

\* the peer closes the connection, or the network drops it
PeerClose(h) ==
    /\ h \in live \ peerClosed
    /\ peerClosed' = peerClosed \cup {h}
    /\ UNCHANGED <<cfg, codec, ioVars, clientVars, ctxDone, sup, transportVars, sendChan,
                   nextHandle, taskVars, wrote, rt>>


(***************************************************************************)
(* The supervisor loop, Client.startConnectionClient.                      *)
(***************************************************************************)
maxReconnectAttempts(c) ==
    IF c.reconnect.maxAttempts = 0 THEN DefaultMaxAttempts
    ELSE c.reconnect.maxAttempts

\* time.Duration(BackoffMultiplier): the float64 is truncated to an integer
DurationOf(mult2) == mult2 \div 2

\* for i := 1; i < reconnectAttempts; i++ { delay *= ... }
RECURSIVE backoffLoop(_, _, _, _)
backoffLoop(delay, i, reconnectAttempts, factor) ==
    IF i < reconnectAttempts
    THEN backoffLoop(delay * factor, i + 1, reconnectAttempts, factor)
    ELSE delay

backoffDelay(policy, reconnectAttempts) ==
    LET delay == backoffLoop(policy.initialDelay, 1, reconnectAttempts,
                             DurationOf(policy.mult2))
    IN  IF delay > policy.maxDelay THEN policy.maxDelay ELSE delay

\* the same loop on the int64 the delay is: delay *= time.Duration(mult)
\* wraps modulo 2^64
RECURSIVE backoffLoop64(_, _, _, _)
backoffLoop64(delay, i, reconnectAttempts, factor) ==
    IF i < reconnectAttempts
    THEN backoffLoop64(Mul64(delay, factor), i + 1, reconnectAttempts, factor)
    ELSE delay

backoffDelay64(t, reconnectAttempts) ==
    LET delay == backoffLoop64(t.initialDelay, 1, reconnectAttempts,
                               DurationOf(t.mult2))
    IN  IF Less64(t.maxDelay, delay) THEN t.maxDelay ELSE delay

Returned(s, cause) == [s EXCEPT !.pc = "returned", !.cause = cause]

\* the top of the outer for: select on ctx.Done() with a default
SupLoop(i) ==
    /\ sup[i].pc = "loop"
    /\ sup' = [sup EXCEPT ![i] =
                 IF ctxDone THEN Returned(@, "ctx")
                 ELSE [@ EXCEPT !.pc = "dial", !.tries = @ + 1]]
    /\ UNCHANGED <<cfg, codec, ioVars, clientVars, ctxDone, transportVars, sendChan,
                   nextHandle, peerClosed, taskVars, wrote, rt>>

\* afterConnectError giving up one failure late (> for >=)
afterConnectError_oneMore(c, s) ==
    IF ~c.reconnect.enabled THEN Returned(s, "disabled")
    ELSE LET n == s.attempts + 1
         IN  IF n > maxReconnectAttempts(c)
             THEN Returned([s EXCEPT !.attempts = n], "exhausted")
             ELSE [s EXCEPT !.pc = "backoff", !.attempts = n,
                            !.delay = backoffDelay(c.reconnect, n),
                            !.waits = @ + 1]

\* what the loop does with a Connect that returned an error
afterConnectError(c, s) ==
    IF ~c.reconnect.enabled THEN Returned(s, "disabled")
    ELSE LET n == s.attempts + 1
         IN  IF n >= maxReconnectAttempts(c)
             THEN Returned([s EXCEPT !.attempts = n], "exhausted")
             ELSE [s EXCEPT !.pc = "backoff", !.attempts = n,
                            !.delay = backoffDelay(c.reconnect, n),
                            !.waits = @ + 1]

\* Connect's dial fails (refused, timed out, or the context was cancelled)
DialFail(i) ==
    /\ sup[i].pc = "dial"
    /\ sup' = [sup EXCEPT ![i] = afterConnectError(cfg, @)]
    /\ UNCHANGED <<cfg, codec, ioVars, clientVars, ctxDone, transportVars, sendChan,
                   nextHandle, peerClosed, taskVars, wrote, rt>>

\* Connect's dial succeeds; Connect stores the handle under the lock
DialOk(i) ==
    /\ sup[i].pc = "dial"
    /\ nextHandle < MaxConns
    /\ cfg.protocol = "tcp" => ~ctxDone      \* DialContext(ctx, ...)
    /\ LET h == nextHandle + 1
       IN  /\ nextHandle' = h
           /\ live' = live \cup {h}
           /\ conn' = h
           /\ connected' = TRUE
           /\ closes' = closes
           /\ sup' = [sup EXCEPT ![i].pc = "identify", ![i].h = h]
    /\ UNCHANGED <<cfg, codec, ioVars, clientVars, ctxDone, sendChan, peerClosed, taskVars,
                   wrote, rt>>

\* go readPump, go writePump, go pingPump; Connect returns nil and the loop
\* resets reconnectAttempts
Spawned(i) ==
    LET t == sup[i].h
    IN  /\ readers' = [readers EXCEPT ![t] = [NoReader EXCEPT !.pc = "top"]]
        /\ writers' = [writers EXCEPT ![t] = "run"]
        /\ pingers' = [pingers EXCEPT
                         ![t] = IF cfg.protocol = "tcp" THEN "none" ELSE "run"]
        /\ sup' = [sup EXCEPT ![i].pc = "check", ![i].attempts = 0,
                              ![i].tries = 0, ![i].waits = 0]

\* SendCommand(identification) up to its IsConnected check
SupIdentify(i) ==
    /\ sup[i].pc = "identify"
    /\ IF connected
       THEN /\ sup' = [sup EXCEPT ![i].pc = "identifyEnq"]
            /\ UNCHANGED taskVars
       ELSE Spawned(i)
    /\ UNCHANGED <<cfg, codec, ioVars, clientVars, ctxDone, transportVars, sendChan,
                   nextHandle, peerClosed, wrote, rt>>

SupIdentifyEnq(i) ==
    /\ sup[i].pc = "identifyEnq"
    /\ Enqueue(Identification(cfg))
    /\ Spawned(i)
    /\ UNCHANGED <<cfg, codec, ioVars, clientVars, ctxDone, transportVars, nextHandle,
                   peerClosed, wrote, rt>>

SupIdentifyTimeout(i) ==
    /\ sup[i].pc = "identifyEnq"
    /\ EnqueueTimeout
    /\ Spawned(i)
    /\ UNCHANGED <<cfg, codec, ioVars, clientVars, ctxDone, transportVars, nextHandle,
                   peerClosed, wrote, rt>>

\* afterConnectionLost of a loop that never reconnects
afterConnectionLost_giveUp(c, s) == Returned(s, "lost")

\* afterConnectionLost that reconnects without the Sleep
afterConnectionLost_noSleep(c, s) ==
    IF c.reconnect.enabled
    THEN [s EXCEPT !.pc = "loop"]
    ELSE Returned(s, "lost")

\* what the loop does once the inner for has seen the connection lost
afterConnectionLost(c, s) ==
    IF c.reconnect.enabled
    THEN [s EXCEPT !.pc = "sleepLost", !.delay = c.reconnect.initialDelay]
    ELSE Returned(s, "lost")

\* the top of the inner for: IsConnected, and what follows the break
SupCheck(i) ==
    /\ sup[i].pc = "check"
    /\ sup' = [sup EXCEPT ![i] =
                 IF connected THEN [@ EXCEPT !.pc = "wait"]
                 ELSE afterConnectionLost(cfg, @)]
    /\ UNCHANGED <<cfg, codec, ioVars, clientVars, ctxDone, transportVars, sendChan,
                   nextHandle, peerClosed, taskVars, wrote, rt>>

\* SupCtxDone of a loop that returns on ctx.Done() without the Disconnect
SupCtxDone_noDisconnect(i) ==
    /\ sup[i].pc = "wait"
    /\ ctxDone
    /\ sup' = [sup EXCEPT ![i] = Returned(@, "ctx")]
    /\ UNCHANGED <<cfg, codec, ioVars, clientVars, ctxDone, transportVars,
                   sendChan, nextHandle, peerClosed, taskVars, wrote, rt>>

\* the inner select takes <-ctx.Done()
SupCtxDone(i) ==
    /\ sup[i].pc = "wait"
    /\ ctxDone
    /\ Disconnect
    /\ sup' = [sup EXCEPT ![i] = Returned(@, "ctx")]
    /\ UNCHANGED <<cfg, codec, ioVars, clientVars, ctxDone, sendChan, nextHandle,
                   peerClosed, taskVars, wrote, rt>>

\* the inner select takes <-time.After(30s): SendCommand(heartbeat) up to
\* its IsConnected check
SupHeartbeat(i) ==
    /\ sup[i].pc = "wait"
    /\ sup' = [sup EXCEPT ![i].pc = IF connected THEN "hbEnq" ELSE "check"]
    /\ UNCHANGED <<cfg, codec, ioVars, clientVars, ctxDone, transportVars, sendChan,
                   nextHandle, peerClosed, taskVars, wrote, rt>>

SupHbEnq(i) ==
    /\ sup[i].pc = "hbEnq"
    /\ Enqueue(Heartbeat)
    /\ sup' = [sup EXCEPT ![i].pc = "check"]
    /\ UNCHANGED <<cfg, codec, ioVars, clientVars, ctxDone, transportVars, nextHandle,
                   peerClosed, taskVars, wrote, rt>>

SupHbTimeout(i) ==
    /\ sup[i].pc = "hbEnq"
    /\ EnqueueTimeout
    /\ sup' = [sup EXCEPT ![i].pc = "check"]
    /\ UNCHANGED <<cfg, codec, ioVars, clientVars, ctxDone, transportVars, nextHandle,
                   peerClosed, taskVars, wrote, rt>>

\* time.Sleep(delay) returns: after a failed Connect or after a lost
\* connection
SupSleepEnd(i) ==
    /\ sup[i].pc \in {"backoff", "sleepLost"}
    /\ sup' = [sup EXCEPT ![i].pc = "loop"]
    /\ UNCHANGED <<cfg, codec, ioVars, clientVars, ctxDone, transportVars, sendChan,
                   nextHandle, peerClosed, taskVars, wrote, rt>>

(***************************************************************************)
(* readPump.                                                               *)
(***************************************************************************)
\* the top of the loop: select on ctx.Done() with a default, then c.conn is
\* read for the Read call
ReaderTop(t) ==
    /\ readers[t].pc = "top"
    /\ IF ctxDone
       THEN /\ Disconnect       \* the deferred c.Disconnect()
            /\ readers' = [readers EXCEPT ![t].pc = "exit"]
       ELSE /\ readers' = [readers EXCEPT ![t].pc = "read", ![t].h = conn]
            /\ UNCHANGED transportVars
    /\ UNCHANGED <<cfg, codec, ioVars, clientVars, ctxDone, sup, sendChan, nextHandle,
                   peerClosed, writers, pingers, wrote, rt>>

\* Read returns a message: handleMessage up to the send into sendChan
ReaderRecv(t, m, oc) ==
    /\ readers[t].pc = "read"
    /\ readers[t].h \in live \ peerClosed
    /\ LET r == handleMessage(cfg, commandHandler, m, oc)
       IN  /\ rt' = [in |-> m, handled |-> r.handled,
                     executor |-> r.executor,
                     outcome |-> IF r.executor = "none" THEN "none" ELSE oc,
                     reply |-> r.reply]
           /\ readers' = [readers EXCEPT ![t] =
                 IF r.reply = NoEnv \/ (r.viaSendCommand /\ ~connected)
                 THEN [@ EXCEPT !.pc = "top"]
                 ELSE [@ EXCEPT !.pc = "enq", !.out = r.reply]]
    /\ UNCHANGED <<cfg, codec, ioVars, clientVars, ctxDone, sup, transportVars, sendChan,
                   nextHandle, peerClosed, writers, pingers, wrote>>

ReaderEnq(t) ==
    /\ readers[t].pc = "enq"
    /\ Enqueue(readers[t].out)
    /\ readers' = [readers EXCEPT ![t].pc = "top", ![t].out = NoEnv]
    /\ UNCHANGED <<cfg, codec, ioVars, clientVars, ctxDone, sup, transportVars, nextHandle,
                   peerClosed, writers, pingers, wrote, rt>>

ReaderEnqTimeout(t) ==
    /\ readers[t].pc = "enq"
    /\ EnqueueTimeout
    /\ readers' = [readers EXCEPT ![t].pc = "top", ![t].out = NoEnv]
    /\ UNCHANGED <<cfg, codec, ioVars, clientVars, ctxDone, sup, transportVars, nextHandle,
                   peerClosed, writers, pingers, wrote, rt>>

\* ReaderErr of a readPump that has no deferred Disconnect
ReaderErr_noDisconnect(t) ==
    /\ readers[t].pc = "read"
    /\ readers[t].h \notin live \ peerClosed
    /\ readers' = [readers EXCEPT ![t].pc = "exit"]
    /\ UNCHANGED <<cfg, codec, ioVars, clientVars, ctxDone, sup, transportVars,
                   sendChan, nextHandle, peerClosed, writers, pingers, wrote,
                   rt>>

\* Read returns an error: the handle was closed, by this side or the peer
ReaderErr(t) ==
    /\ readers[t].pc = "read"
    /\ readers[t].h \notin live \ peerClosed
    /\ Disconnect               \* the deferred c.Disconnect()
    /\ readers' = [readers EXCEPT ![t].pc = "exit"]
    /\ UNCHANGED <<cfg, codec, ioVars, clientVars, ctxDone, sup, sendChan, nextHandle,
                   peerClosed, writers, pingers, wrote, rt>>

\* Read returns a message and the handler installed in the transport is any
\* function: response is what it returns for m.  A message the router
\* answers itself never reaches the handler.
ReaderRecvInjected(t, m, response) ==
    IF ~m.ok \/ m.type \in SystemTypes
    THEN ReaderRecv(t, m, "ok")
    ELSE /\ readers[t].pc = "read"
         /\ readers[t].h \in live \ peerClosed
         /\ commandHandler
         /\ LET a == afterHandler(cfg, response)
            IN  /\ rt' = [in |-> m, handled |-> TRUE, executor |-> "none",
                          outcome |-> "none", reply |-> a.env]
                /\ readers' = [readers EXCEPT ![t] =
                      IF ~a.send \/ (a.viaSendCommand /\ ~connected)
                      THEN [@ EXCEPT !.pc = "top"]
                      ELSE [@ EXCEPT !.pc = "enq", !.out = a.env]]
         /\ UNCHANGED <<cfg, codec, ioVars, clientVars, ctxDone, sup, transportVars,
                        sendChan, nextHandle, peerClosed, writers, pingers,
                        wrote>>

(***************************************************************************)
(* writePump and pingPump.                                                 *)
(***************************************************************************)
\* the select takes data := <-c.sendChan and the write to c.conn succeeds
WriterSend(t) ==
    /\ writers[t] = "run"
    /\ sendChan # <<>>
    /\ conn \in live
    /\ sendChan' = Tail(sendChan)
    /\ wrote' = wrote \cup {conn}
    /\ UNCHANGED <<cfg, codec, ioVars, clientVars, ctxDone, sup, transportVars, nextHandle,
                   peerClosed, taskVars, rt>>

\* the select takes data := <-c.sendChan and the write to c.conn fails
WriterFail(t) ==
    /\ writers[t] = "run"
    /\ sendChan # <<>>
    /\ conn \notin live \ peerClosed
    /\ sendChan' = Tail(sendChan)
    /\ writers' = [writers EXCEPT ![t] = "exit"]
    /\ UNCHANGED <<cfg, codec, ioVars, clientVars, ctxDone, sup, transportVars, nextHandle,
                   peerClosed, readers, pingers, wrote, rt>>

WriterCtx(t) ==
    /\ writers[t] = "run"
    /\ ctxDone
    /\ writers' = [writers EXCEPT ![t] = "exit"]
    /\ UNCHANGED <<cfg, codec, ioVars, clientVars, ctxDone, sup, transportVars, sendChan,
                   nextHandle, peerClosed, readers, pingers, wrote, rt>>

\* The writer's two steps taken apart: the receive from c.sendChan, and the
\* write of what was received to the handle c.conn holds at that moment.
InFlight(t, h, env) == [w |-> t, h |-> h, env |-> env]

IndexOf(t) == CHOOSE k \in 1..Len(inflight) : inflight[k].w = t

Without(t) == SelectSeq(inflight, LAMBDA x : x.w # t)

\* the select takes data := <-c.sendChan
WriterTake(t) ==
    /\ writers[t] = "run"
    /\ sendChan # <<>>
    /\ sendChan' = Tail(sendChan)
    /\ inflight' = Append(inflight, InFlight(t, conn, Head(sendChan)))
    /\ writers' = [writers EXCEPT ![t] = "write"]
    /\ UNCHANGED <<cfg, codec, timer, stream, clientVars, ctxDone, sup, transportVars,
                   nextHandle, peerClosed, readers, pingers, wrote, rt>>

\* the write of data to c.conn succeeds
WriterWrite(t) ==
    /\ writers[t] = "write"
    /\ conn \in live
    /\ inflight' = Without(t)
    /\ wrote' = wrote \cup {conn}
    /\ writers' = [writers EXCEPT ![t] = "run"]
    /\ UNCHANGED <<cfg, codec, timer, stream, clientVars, ctxDone, sup, transportVars,
                   sendChan, nextHandle, peerClosed, readers, pingers, rt>>

\* the write of data to c.conn fails: the pump returns
WriterWriteFail(t) ==
    /\ writers[t] = "write"
    /\ conn \notin live \ peerClosed
    /\ inflight' = Without(t)
    /\ writers' = [writers EXCEPT ![t] = "exit"]
    /\ UNCHANGED <<cfg, codec, timer, stream, clientVars, ctxDone, sup, transportVars,
                   sendChan, nextHandle, peerClosed, readers, pingers, wrote,
                   rt>>

\* the 54s ticker fires: if IsConnected, c.conn.WriteMessage(PingMessage),
\* which returns nil
PingTick(t) ==
    /\ pingers[t] = "run"
    /\ connected => conn \in live
    /\ UNCHANGED pingers
    /\ UNCHANGED <<cfg, codec, ioVars, clientVars, ctxDone, sup, transportVars, sendChan,
                   nextHandle, peerClosed, readers, writers, wrote, rt>>

\* the 54s ticker fires, the client IsConnected and the write of the ping
\* fails: the pump returns
PingFail(t) ==
    /\ pingers[t] = "run"
    /\ connected
    /\ conn \notin live \ peerClosed
    /\ pingers' = [pingers EXCEPT ![t] = "exit"]
    /\ UNCHANGED <<cfg, codec, ioVars, clientVars, ctxDone, sup, transportVars, sendChan,
                   nextHandle, peerClosed, readers, writers, wrote, rt>>

PingCtx(t) ==
    /\ pingers[t] = "run"
    /\ ctxDone
    /\ pingers' = [pingers EXCEPT ![t] = "exit"]
    /\ UNCHANGED <<cfg, codec, ioVars, clientVars, ctxDone, sup, transportVars, sendChan,
                   nextHandle, peerClosed, readers, writers, wrote, rt>>

(***************************************************************************)
(* Specifications.                                                         *)
(***************************************************************************)
Ids == {"7"}

\* the lifecycle: the envelope the peer may send
InboundCore == {Message("ping", "7", Payload(Absent, Absent))}

CorePolicies == {Policy(e, 2, 1, 2, 4) : e \in BOOLEAN}

CoreConfigs == {Config(p, r, AllEnabled, "ssh_command") :
                   p \in Protocols, r \in CorePolicies}

Init == InitWith(CoreConfigs)

\* an owner that calls Start once, on the new client, and calls Stop only on
\* a running client
StartOnce == ~running /\ Start(1)

StopRunning == running /\ StopBegin

\* the supervisor's steps that need no cancelled context
SupStep(i) ==
    \/ SupLoop(i) \/ DialFail(i) \/ DialOk(i)
    \/ SupIdentify(i) \/ SupIdentifyEnq(i) \/ SupIdentifyTimeout(i)
    \/ SupCheck(i)
    \/ SupHeartbeat(i) \/ SupHbEnq(i) \/ SupHbTimeout(i)
    \/ SupSleepEnd(i)

ReadStep(t) == ReaderTop(t) \/ ReaderErr(t)

WriteStep(t) == WriterSend(t) \/ WriterFail(t)

PingStep(t) == PingTick(t) \/ PingFail(t)

CtxStep(t) == WriterCtx(t) \/ PingCtx(t)

RouteStep(t, inbound) ==
    \/ \E m \in inbound, oc \in ExecOutcomes : ReaderRecv(t, m, oc)
    \/ ReaderEnq(t) \/ ReaderEnqTimeout(t)

\* The lifecycle of a client that is started once, may be stopped and may
\* have its context cancelled, and whose peer sends nothing.
Next ==
    \/ StartOnce \/ StopRunning \/ StopDisconnect \/ CancelCtx
    \/ \E h \in Handles : PeerClose(h)
    \/ \E i \in Sups : SupStep(i) \/ SupCtxDone(i)
    \/ \E t \in Handles : ReadStep(t) \/ WriteStep(t) \/ PingStep(t)
                             \/ CtxStep(t)

Spec == Init /\ [][Next]_vars

\* Start and Stop called again and again on one client whose peer stays up
\* and sends nothing, the context never cancelled, up to the point at which
\* a writer first runs.
NextRestart ==
    \/ Start(MaxStarts) \/ StopBegin \/ StopDisconnect
    \/ \E i \in Sups : SupStep(i)
    \/ \E t \in Handles : ReadStep(t)

SpecRestart == Init /\ [][NextRestart]_vars

\* The reconnect policies, on a client that is started once and never
\* stopped.
BackoffPolicies ==
    {Policy(e, a, d, x, m) : e \in BOOLEAN, a \in (-1)..MaxPolicyAttempts,
                             d \in {1, 2}, x \in {3, 8}, m \in {2, 3, 4}}

BackoffConfigs == {Config(p, r, AllEnabled, "ssh_command") :
                      p \in Protocols, r \in BackoffPolicies}

NextBackoff ==
    \/ StartOnce
    \/ \E h \in Handles : PeerClose(h)
    \/ \E i \in Sups : SupStep(i)
    \/ \E t \in Handles : ReadStep(t) \/ WriteStep(t)

SpecBackoff == InitWith(BackoffConfigs) /\ [][NextBackoff]_vars

\* The command handler Start installs, applied to the commands a peer can
\* send, under every setting of the enabled flags and every quick command
\* template.
InboundTypes == SystemTypes \cup CommandTypes \cup {"reboot", Absent}

InboundPayloads ==
    {Payload(Absent, Absent), Payload("string", Absent),
     Payload("map", Absent), Payload("map", "restart"),
     Payload("map", "nosuch")}

InboundAll == {Message(ty, id, pl) : ty \in InboundTypes,
                                     id \in Ids \cup {Absent},
                                     pl \in InboundPayloads}

DispatchConfigs ==
    {Config(p, Policy(TRUE, 2, 1, 2, 4), f, q) :
        p \in Protocols, f \in EnabledFlags,
        q \in GatedTypes \cup {"custom"}}

\* the transport's reader calls c.commandHandler(message)
Dispatch(m, oc) ==
    /\ LET r == commandHandlerOf(cfg, m, oc)
       IN  rt' = [in |-> m, handled |-> TRUE, executor |-> r.executor,
                  outcome |-> IF r.executor = "none" THEN "none" ELSE oc,
                  reply |-> r.reply]
    /\ UNCHANGED <<cfg, codec, ioVars, clientVars, ctxDone, sup, transportVars, sendChan,
                   nextHandle, peerClosed, taskVars, wrote>>

NextDispatch == \E m \in InboundAll, oc \in ExecOutcomes : Dispatch(m, oc)

SpecDispatch == InitWith(DispatchConfigs) /\ [][NextDispatch]_vars

\* The router: a connected client whose peer sends envelopes of every type.
RouterInbound ==
    {Message(ty, "7", Payload("map", "restart")) : ty \in InboundTypes}
        \cup {Malformed}

NextRouter ==
    \/ StartOnce
    \/ \E i \in Sups : SupLoop(i) \/ DialOk(i) \/ SupIdentify(i)
                          \/ SupIdentifyEnq(i) \/ SupCheck(i)
    \/ \E t \in Handles : ReaderTop(t) \/ RouteStep(t, RouterInbound)
                             \/ WriterSend(t)

SpecRouter == Init /\ [][NextRouter]_vars

\* A transport client whose installed handler returns no response for the
\* commands with id "42" and a response for every other command.
EmptyResults(c, m) ==
    IF c.protocol = "tcp"
    THEN {HandlerResult(TRUE, NoEnv),                  \* nil
          HandlerResult(FALSE, NoEnv)}                 \* the empty map
    ELSE {HandlerResult(FALSE, Envelope("", "", NoPayload, {})),
          HandlerResult(FALSE, Envelope("", Str(m.id), NoPayload, {}))}

InjectedResults(c, m) ==
    IF m.id = "42" THEN EmptyResults(c, m)
    ELSE {HandlerResult(FALSE, Envelope("command_response", Str(m.id),
                                        PayloadOf("response"), {}))}

InjectedInbound ==
    {Message("custom", id, Payload("map", Absent)) : id \in {"42", "7"}}
        \cup {Message("ping", "7", Payload(Absent, Absent))}

NextInjected ==
    \/ StartOnce
    \/ \E i \in Sups : SupLoop(i) \/ DialOk(i) \/ SupIdentify(i)
                          \/ SupIdentifyEnq(i) \/ SupCheck(i)
    \/ \E t \in Handles :
          \/ ReaderTop(t) \/ ReaderEnq(t) \/ ReaderEnqTimeout(t)
          \/ WriterSend(t)
          \/ \E m \in InjectedInbound :
                \E response \in InjectedResults(cfg, m) :
                    ReaderRecvInjected(t, m, response)

SpecInjected == Init /\ [][NextInjected]_vars

\* A connected client whose peer sends commands of every type with every
\* kind of payload, under every setting of the enabled flags, up to the
\* point at which the writer first runs.
CommandInbound ==
    {m \in InboundAll :
        /\ m.type \notin SystemTypes
        /\ m.payload \in {Payload("string", Absent), Payload("map", Absent),
                           Payload("map", "restart")}}

NextCommands ==
    \/ StartOnce
    \/ \E i \in Sups : SupLoop(i) \/ DialOk(i) \/ SupIdentify(i)
                          \/ SupIdentifyEnq(i)
    \/ \E t \in Handles : ReaderTop(t) \/ RouteStep(t, CommandInbound)

CommandConfigs ==
    {Config(p, Policy(TRUE, 2, 1, 2, 4), [t \in GatedTypes |-> e], q) :
        p \in Protocols, e \in BOOLEAN, q \in {"ssh_command", "custom"}}

SpecCommands == InitWith(CommandConfigs) /\ [][NextCommands]_vars

\* An envelope of the bounded set is encoded as SendCommand encodes it and
\* the bytes are decoded as handleMessage decodes them.
CodecNumbers ==
    {Num(0, 0), Num(0, 7), Num(12, 119387264),
     Num(Pow(2, 26) - 1, Limb - 1),
     Num(Pow(2, 26), 0), Num(Pow(2, 26), 1), Num(Pow(2, 26), 2),
     Num(Pow(2, 26), 3), Num(Pow(2, 26), 4)}

CodecScalars ==
    {JNull, JBool(TRUE), JBool(FALSE), JStr(""), JStr("restart")}
        \cup {JNum(n) : n \in CodecNumbers}

CodecFlat ==
    CodecScalars
        \cup {JArr(<<>>), JObj({})}
        \cup {JArr(<<v>>) : v \in CodecScalars}
        \cup {JArr(<<JStr("restart"), v>>) : v \in CodecScalars}
        \cup {JObj({Member("command", v)}) : v \in CodecScalars}

CodecPayloads ==
    CodecFlat
        \cup {JObj({Member("command", JStr("restart")), Member("env", v)}) :
                 v \in CodecFlat}

CodecEnvelopes ==
    {Tuple(type, payload, id) :
        type \in {"custom", "command_response"},
        payload \in CodecPayloads,
        id \in Ids \cup {""}}

CodecSend(e) ==
    /\ codec.pc = "idle"
    /\ codec' = [pc |-> "sent", env |-> e, wire |-> Encode(cfg, e),
                 out |-> DecodeError]
    /\ UNCHANGED <<cfg, ioVars, clientVars, ctxDone, sup, transportVars,
                   sendChan, nextHandle, peerClosed, taskVars, wrote, rt>>

CodecReceive ==
    /\ codec.pc = "sent"
    /\ codec' = [codec EXCEPT !.pc = "received",
                              !.out = Decode(cfg, codec.wire)]
    /\ UNCHANGED <<cfg, ioVars, clientVars, ctxDone, sup, transportVars,
                   sendChan, nextHandle, peerClosed, taskVars, wrote, rt>>

NextCodec ==
    \/ \E e \in CodecEnvelopes : CodecSend(e)
    \/ CodecReceive

SpecCodec == Init /\ [][NextCodec]_vars

\* One session after another: a client that is started once and is neither
\* stopped nor cancelled, whose peer may close each connection.  Every
\* goroutine that can take a step is scheduled in the end, every timer
\* fires and a Read on a closed connection returns.
NextSession ==
    \/ StartOnce
    \/ \E h \in Handles : PeerClose(h)
    \/ \E i \in Sups : SupStep(i)
    \/ \E t \in Handles : ReadStep(t) \/ WriteStep(t) \/ PingStep(t)

FairSession ==
    /\ \A i \in Sups : WF_vars(SupStep(i))
    /\ \A t \in Handles : WF_vars(ReadStep(t))

SpecSession == Init /\ [][NextSession]_vars /\ FairSession

\* The inbound side of a TCP connection: the peer writes envelopes one
\* after the other into the byte stream, and each Read of readPump returns
\* some of the bytes that have arrived (the envelopes of the bounded set are
\* shorter than the 4096 bytes of the buffer), which handleMessage decodes.
StreamEnvelopes ==
    {Tuple(type, payload, "7") :
        type \in {"custom", "ping"},
        payload \in {JNull, JObj({Member("command", JStr("restart"))})}}

StreamConfigs == {c \in CoreConfigs : c.protocol = "tcp"}

PeerSend(e) ==
    /\ Len(stream.sent) < MaxSent
    /\ stream' = [stream EXCEPT !.unread = @ \o tcpEncode(e),
                                !.sent = Append(@, e)]
    /\ UNCHANGED <<cfg, codec, timer, inflight, clientVars, ctxDone, sup,
                   transportVars, sendChan, nextHandle, peerClosed, taskVars,
                   wrote, rt>>

\* n, err := c.conn.Read(buffer); c.handleMessage(buffer[:n])
StreamRead(n) ==
    /\ n \in 1..Len(stream.unread)
    /\ LET data == SubSeq(stream.unread, 1, n)
           message == tcpDecode(data)
       IN  stream' = [stream EXCEPT
                        !.unread = SubSeq(@, n + 1, Len(@)),
                        !.dispatched =
                            IF message.ok
                            THEN Append(@, Tuple(message.type,
                                                 message.payload, message.id))
                            ELSE @]
    /\ UNCHANGED <<cfg, codec, timer, inflight, clientVars, ctxDone, sup,
                   transportVars, sendChan, nextHandle, peerClosed, taskVars,
                   wrote, rt>>

NextStream ==
    \/ \E e \in StreamEnvelopes : PeerSend(e)
    \/ \E n \in 1..Len(stream.unread) : StreamRead(n)

SpecStream == InitWith(StreamConfigs) /\ [][NextStream]_vars

(***************************************************************************)
(* The claims.                                                             *)
(***************************************************************************)
\* Stop has returned and Start has not been called since
Stopped == ~running /\ stopPc = "idle"

Started == \E i \in Sups : sup[i].pc # "none"

\* C1: once Stop has returned (and until Start is called again) no
\* supervisor begins a connect attempt and the client is not Connected,
\* whatever the reconnect policy and wherever Stop found the supervisor.
C1_StopEndsConnecting ==
    [][Stopped =>
         /\ ~connected'
         /\ \A i \in Sups : sup'[i].pc = "dial" => sup[i].pc = "dial"]_vars

\* C4: the first envelope a writer transmits on a handle is the
\* identification envelope.
C4_IdentificationFirst ==
    [][\A h \in Handles :
         (h \notin wrote /\ h \in wrote') =>
             Head(sendChan) = Identification(cfg)]_vars

\* C5: at most one transport handle is live in every reachable state.
C5_OneLiveHandle == Cardinality(live) <= 1

\* C6: once Stop has returned, no goroutine started for the client is still
\* running: the supervisor loops have returned and every pump has exited.
C6_NoTaskOutlivesStop ==
    (Started /\ Stopped) =>
        /\ \A i \in Sups : sup[i].pc \in {"none", "returned"}
        /\ \A t \in Handles :
             /\ readers[t].pc \in {"none", "exit"}
             /\ writers[t] \in {"none", "exit"}
             /\ pingers[t] \in {"none", "exit"}


\* the attempts the loop allows a policy: max_attempts, or 5 when it is 0,
\* or 1 when it is negative
C2_Allowed ==
    IF cfg.reconnect.maxAttempts = 0 THEN 5
    ELSE IF cfg.reconnect.maxAttempts < 1 THEN 1
    ELSE cfg.reconnect.maxAttempts

\* C2 as stated: with reconnection enabled, a supervisor that gives up after
\* a run of failed connect attempts has made at most max_attempts of them.
C2_AtMostMaxAttempts ==
    cfg.reconnect.enabled =>
        \A i \in Sups : sup[i].cause = "exhausted" =>
                             sup[i].tries <= cfg.reconnect.maxAttempts

\* C2 as amended: with reconnection enabled and M = max_attempts, or 5 when
\* max_attempts is 0, or 1 when max_attempts is negative, a run of failed
\* connect attempts has at most M attempts and M - 1 backoff waits, and the
\* loop gives up after exactly M attempts separated by exactly M - 1 waits.
C2_AtMostAllowedAttempts ==
    cfg.reconnect.enabled =>
        \A i \in Sups :
            /\ sup[i].tries <= C2_Allowed
            /\ sup[i].waits <= C2_Allowed - 1
            /\ sup[i].cause = "exhausted" =>
                 /\ sup[i].pc = "returned"
                 /\ sup[i].tries = C2_Allowed
                 /\ sup[i].waits = C2_Allowed - 1

\* every one of 3 allowed attempts failed: 3 attempts, 2 waits, given up
C2_Witness ==
    /\ cfg.reconnect.enabled
    /\ cfg.reconnect.maxAttempts = 3
    /\ nextHandle = 0
    /\ \E i \in Sups : /\ sup[i].pc = "returned"
                       /\ sup[i].cause = "exhausted"
                       /\ sup[i].tries = 3
                       /\ sup[i].waits = 2

\* C3: the wait after the k-th consecutive failed connect attempt is
\* min(initial_delay * backoff_multiplier^(k-1), max_delay), for every
\* multiplier, integer or not.  The multiplier is mult2 / 2, so both sides
\* are scaled by 2^(k-1).
C3_DelayIsCappedPower ==
    \A i \in Sups :
        sup[i].pc = "backoff" =>
            LET k == sup[i].attempts
                p == cfg.reconnect
            IN  sup[i].delay * Pow(2, k - 1) =
                    Min(p.initialDelay * Pow(p.mult2, k - 1),
                        p.maxDelay * Pow(2, k - 1))

\* C7: no executor of a gated command type runs while the type's enabled
\* flag is false, whatever envelope arrives.
C7_DisabledNeverExecuted ==
    rt.executor \in GatedTypes => cfg.enabledCommands[rt.executor]

\* C8: a command of a disabled type T gets a response with success = false,
\* the error "T commands are disabled" and the command's id, whatever its
\* payload.
C8_DisabledResponse ==
    (rt.in.ok /\ rt.handled /\ rt.in.type \in GatedTypes
        /\ ~cfg.enabledCommands[rt.in.type]) =>
            /\ rt.reply.type = "command_response"
            /\ rt.reply.id = Str(rt.in.id)
            /\ rt.reply.payload.id = Str(rt.in.id)
            /\ rt.reply.payload.success = FALSE
            /\ rt.reply.payload.error = rt.in.type \o " commands are disabled"
            /\ rt.executor = "none"

\* a disabled ssh_command that carries a well-formed payload was refused
C8_Witness ==
    /\ ~cfg.enabledCommands.ssh_command
    /\ rt.handled
    /\ rt.in.type = "ssh_command"
    /\ rt.in.id = "7"
    /\ rt.in.payload = Payload("map", "restart")
    /\ rt.reply.payload.error = "ssh_command commands are disabled"

\* C9: an inbound envelope of a system type is never passed to the command
\* handler, on either transport: not by the reader of the running client,
\* and not by the router of either transport with or without a handler set.
C9_SystemTypesNotForwarded ==
    /\ (rt.in.ok /\ rt.in.type \in SystemTypes) =>
           (~rt.handled /\ rt.executor = "none")
    /\ \A p \in Protocols, handlerSet \in BOOLEAN, m \in RouterInbound,
          oc \in ExecOutcomes :
           (m.ok /\ m.type \in SystemTypes) =>
               LET r == handleMessage([cfg EXCEPT !.protocol = p],
                                      handlerSet, m, oc)
               IN  ~r.handled /\ r.executor = "none"

\* a reader has routed a ping and a reader has a handler installed
C9_Witness ==
    /\ commandHandler
    /\ rt.in.ok
    /\ rt.in.type = "ping"
    /\ ~rt.handled
    /\ rt.reply.type = "pong"

\* C10: a connected client that reads a ping with id X goes on to enqueue
\* one reply of type pong with id X and a payload that carries a timestamp,
\* and does not invoke the handler.
C10_PingPong ==
    [][\A t \in Handles :
         (/\ readers[t].pc = "read"
          /\ readers'[t].pc \in {"top", "enq"}
          /\ connected
          /\ rt'.in.ok
          /\ rt'.in.type = "ping") =>
             /\ readers'[t].pc = "enq"
             /\ readers'[t].out.type = "pong"
             /\ readers'[t].out.id = rt'.in.id
             /\ readers'[t].out.payload.kind = "timestamp"
             /\ ~rt'.handled]_vars

\* C11: when the installed handler returns an empty or absent result for a
\* command with id X (here "42"), no envelope with id X is enqueued: none is
\* in sendChan and no reader holds one to enqueue.
C11_EmptyResultNoReply ==
    /\ \A k \in 1..Len(sendChan) : sendChan[k].id # "42"
    /\ \A t \in Handles :
          readers[t].pc = "enq" => readers[t].out.id # "42"

\* the handler returned nothing for the command "42" and the reader went on
C11_Witness ==
    /\ rt.in.ok
    /\ rt.in.type = "custom"
    /\ rt.in.id = "42"
    /\ rt.handled
    /\ \E t \in Handles : readers[t].pc = "read"

\* everything but the return value of the owner's last call
exceptRet == <<cfg, running, commandHandler, stopPc, ctxDone, sup, conn,
               connected, sendChan, nextHandle, live, peerClosed, readers,
               writers, pingers, wrote, rt>>

\* C12: Start on a running client returns the error and changes nothing; a
\* supervisor loop is launched, and Start returns nil, only by a Start that
\* found running false and set it.
C12_StartGuard ==
    [][/\ (ret' = StartAlreadyRunning /\ ret' # ret) =>
              (running /\ UNCHANGED exceptRet)
       /\ (ret' = StartNil /\ ret' # ret) => (~running /\ running')
       /\ \A i \in Sups :
              (sup[i].pc = "none" /\ sup'[i].pc # "none") =>
                  /\ ~running /\ running'
                  /\ ret' = StartNil
                  /\ \A j \in Sups \ {i} : sup'[j] = sup[j]]_vars

\* Start was refused on a running client that has its one supervisor loop
C12_Witness ==
    /\ ret = StartAlreadyRunning
    /\ running
    /\ Cardinality({i \in Sups : sup[i].pc # "none"}) = 1

\* C13: Stop on a client that is not running returns nil and changes
\* nothing, whether the client was never started or a Stop has completed
\* before: it begins no teardown and leaves the running flag, the connected
\* flag and the transport handle as they were.
C13_StopIdempotent ==
    [][/\ (~running /\ stopPc = "idle") => stopPc' = "idle"
       /\ (ret' = StopNotRunning /\ ret' # ret) =>
              (~running /\ UNCHANGED exceptRet)]_vars

\* a second Stop returned after a Stop that had run to completion on a
\* started client
C13_Witness ==
    /\ ret = StopNotRunning
    /\ Started
    /\ ~running
    /\ stopPc = "idle"

\* C14: the connected flag becomes true only as the outcome of a connect
\* attempt that succeeds, and a connect attempt runs only from Disconnected:
\* none is begun, and none succeeds, while the client is Connected.
C14_ConnectedOnlyFromDisconnected ==
    [][/\ (~connected /\ connected') =>
              \E i \in Sups : sup[i].pc = "dial" /\ sup'[i].pc = "identify"
       /\ \A i \in Sups :
              /\ (sup[i].pc # "dial" /\ sup'[i].pc = "dial") => ~connected
              /\ (sup[i].pc = "dial" /\ sup'[i].pc = "identify") =>
                     ~connected]_vars

\* C15 as stated: with no Stop and no cancellation, a supervisor loop that
\* has ended saw either its first connect attempt fail with reconnection
\* disabled, or a run of consecutive failed attempts reach the limit.
C15_OnlyTwoSituations ==
    \A i \in Sups :
        sup[i].pc = "returned" =>
            \/ /\ ~cfg.reconnect.enabled
               /\ sup[i].cause = "disabled"
               /\ nextHandle = 0
            \/ sup[i].cause = "exhausted"

\* C15 as amended: with no Stop and no cancellation, a supervisor loop that
\* has ended is in one of three situations: reconnection is disabled and its
\* first connect attempt failed; reconnection is disabled and the connection
\* it had established was lost; reconnection is enabled and M consecutive
\* attempts failed, M being max_attempts, or 5 when that is 0, or 1 when it
\* is negative.
C15_OnlyThreeSituations ==
    \A i \in Sups :
        sup[i].pc = "returned" =>
            \/ /\ ~cfg.reconnect.enabled
               /\ sup[i].cause = "disabled"
               /\ sup[i].tries = 1
               /\ nextHandle = 0
            \/ /\ ~cfg.reconnect.enabled
               /\ sup[i].cause = "lost"
               /\ nextHandle = 1
               /\ ~connected
            \/ /\ cfg.reconnect.enabled
               /\ sup[i].cause = "exhausted"
               /\ sup[i].attempts = C2_Allowed

\* with reconnection disabled the loop ended when its connection was lost
C15_Witness ==
    /\ ~cfg.reconnect.enabled
    /\ \E i \in Sups : sup[i].pc = "returned" /\ sup[i].cause = "lost"

\* C16: sendChan never holds more than its capacity.  An enqueue that finds
\* room appends its envelope at once; an enqueue that finds the channel full
\* and still full when its timeout expires fails: the envelope is dropped,
\* the channel's contents stay as they were and the connection stays as it
\* was.
C16_BoundedQueueTimeout ==
    [][/\ Len(sendChan') <= SendChanCap
       /\ \A i \in Sups :
              (sup[i].pc \in {"identifyEnq", "hbEnq"}
                  /\ sup'[i].pc # sup[i].pc) =>
                  IF Len(sendChan) < SendChanCap
                  THEN sendChan' = Append(sendChan,
                           IF sup[i].pc = "hbEnq" THEN Heartbeat
                           ELSE Identification(cfg))
                  ELSE /\ sendChan' = sendChan
                       /\ connected' = connected
                       /\ live' = live
       /\ \A t \in Handles :
              (readers[t].pc = "enq" /\ readers'[t].pc # "enq") =>
                  IF Len(sendChan) < SendChanCap
                  THEN sendChan' = Append(sendChan, readers[t].out)
                  ELSE /\ sendChan' = sendChan
                       /\ connected' = connected
                       /\ live' = live]_vars

\* a heartbeat waits to be enqueued on a connected client whose channel is
\* full and whose writer has transmitted nothing
C16_Witness ==
    /\ connected
    /\ Len(sendChan) = SendChanCap
    /\ wrote = {}
    /\ \E i \in Sups : sup[i].pc = "hbEnq"

\* the same configuration on the other transport
OtherTransport(c) ==
    [c EXCEPT !.protocol = IF @ = "tcp" THEN "websocket" ELSE "tcp"]

TypeAndId(env) == <<env.type, env.id>>

\* C17: the two transports produce the same outbound envelopes as (type, id)
\* pairs: the identification the client enqueues, and the reply to every
\* inbound envelope it has routed, are those the client of the other
\* transport produces for the same input.
C17_TransportsAgree ==
    /\ \A k \in 1..Len(sendChan) :
          sendChan[k] = Identification(cfg) =>
              TypeAndId(sendChan[k]) =
                  TypeAndId(Identification(OtherTransport(cfg)))
    /\ rt.in # NoMsg =>
          \A oc \in ExecOutcomes :
              TypeAndId(rt.reply) =
                  TypeAndId(handleMessage(OtherTransport(cfg), commandHandler,
                                          rt.in, oc).reply)

\* C18: when a reader hands a command that is not a system message to the
\* dispatcher, the dispatcher yields one envelope of type command_response
\* whose id is the command's id; the response says success = false when the
\* executor failed, when the payload is invalid and when the type is
\* unknown; the reader goes on (to enqueue that envelope or to read again)
\* and the connection is left as it was.
C18_FailuresAnswered ==
    [][\A t \in Handles :
         (/\ readers[t].pc = "read"
          /\ readers'[t].pc # "read"
          /\ rt'.handled) =>
             LET m == rt'.in
                 reply == rt'.reply
             IN  /\ reply.type = "command_response"
                 /\ reply.id = Str(m.id)
                 /\ reply.payload.kind = "response"
                 /\ reply.payload.id = Str(m.id)
                 /\ rt'.outcome \in {"fail", "err"} =>
                        ~reply.payload.success
                 /\ (m.type # "custom" /\ m.payload.kind # "map") =>
                        ~reply.payload.success
                 /\ (m.type = "quick_command"
                        /\ m.payload.command = Absent) =>
                        ~reply.payload.success
                 /\ Str(m.type) \notin CommandTypes =>
                        ~reply.payload.success
                 /\ readers'[t].pc \in {"top", "enq"}
                 /\ readers'[t].pc = "enq" => readers'[t].out = reply
                 /\ readers'[t].h = readers[t].h
                 /\ UNCHANGED transportVars]_vars

\* a connected client whose executor returned an error holds the response
\* with success = false, ready to enqueue
C18_Witness ==
    /\ connected
    /\ rt.handled
    /\ rt.outcome = "err"
    /\ rt.in.id \in Ids
    /\ rt.reply.id = rt.in.id
    /\ ~rt.reply.payload.success
    /\ \E t \in Handles : readers[t].pc = "enq" /\ readers[t].out = rt.reply

\* C19: a connected client that reads a status_request with id X goes on to
\* enqueue one reply of type status_response with id X whose body carries
\* connected, client_id and timestamp, and does not invoke the handler.
C19_StatusResponse ==
    [][\A t \in Handles :
         (/\ readers[t].pc = "read"
          /\ readers'[t].pc \in {"top", "enq"}
          /\ connected
          /\ rt'.in.ok
          /\ rt'.in.type = "status_request") =>
             /\ readers'[t].pc = "enq"
             /\ readers'[t].out.type = "status_response"
             /\ readers'[t].out.id = rt'.in.id
             /\ \/ readers'[t].out.payload.kind = "status"
                \/ {"connected", "client_id", "timestamp"}
                       \subseteq readers'[t].out.top
             /\ ~rt'.handled]_vars

\* C20: an envelope that has been encoded and then decoded comes out with
\* the (type, payload, id) it went in with.
C20_RoundTrip ==
    codec.pc = "received" =>
        codec.out = Decoded(TRUE, codec.env.type, codec.env.payload,
                            codec.env.id)

ProbeFailed(t) == connected /\ conn = t /\ pingers[t] = "exit"

C23_AttemptCounter ==
    [][\A i \in Sups :
         /\ (sup[i].attempts # 0 /\ sup'[i].attempts = 0) =>
                (sup[i].pc \in {"identify", "identifyEnq"}
                    /\ sup'[i].pc = "check")
         /\ (cfg.reconnect.enabled /\ sup[i].pc = "dial"
                /\ sup'[i].pc \in {"backoff", "returned"}) =>
                sup'[i].attempts = sup[i].attempts + 1
         /\ (cfg.reconnect.enabled /\ sup[i].pc = "check"
                /\ sup'[i].pc = "sleepLost") =>
                sup'[i].attempts = sup[i].attempts + 1]_vars

\* C24: in every reachable state at most one readPump, at most one
\* writePump and at most one pingPump is running: the pumps started for an
\* earlier connection have returned before those of the next one start.
C24_OneTaskOfEachKind ==
    /\ Cardinality({t \in Handles :
                        readers[t].pc \in {"top", "read", "enq"}}) <= 1
    /\ Cardinality({t \in Handles : writers[t] = "run"}) <= 1
    /\ Cardinality({t \in Handles : pingers[t] = "run"}) <= 1

\* the peer has closed the current connection and the client is Connected
PeerClosedCurrent(h) == connected /\ conn = h /\ h \in peerClosed

\* C25: when the peer has closed the current connection, the transport is
\* closed and the connected flag becomes false in the end.  Under a policy
\* that reconnects the supervisor then sleeps InitialDelay and goes on to a
\* new connect attempt; under one that does not, the supervisor returns and
\* makes no other attempt.
C25_UnexpectedDisconnect ==
    \A h \in Handles :
        /\ PeerClosedCurrent(h) ~> (~connected /\ h \notin live)
        /\ (PeerClosedCurrent(h) /\ cfg.reconnect.enabled)
               ~> (\E i \in Sups :
                       /\ sup[i].pc = "sleepLost"
                       /\ sup[i].delay = cfg.reconnect.initialDelay)
        /\ (\E i \in Sups : sup[i].pc = "sleepLost")
               ~> (\E i \in Sups : sup[i].pc = "dial")
        /\ (PeerClosedCurrent(h) /\ ~cfg.reconnect.enabled)
               ~> (\E i \in Sups : sup[i].pc = "returned")
        /\ []((PeerClosedCurrent(h) /\ ~cfg.reconnect.enabled) =>
                 [](\A i \in Sups : sup[i].pc \notin {"loop", "dial"}))

\* the loop has found the connection the peer closed lost and sleeps
\* InitialDelay before it reconnects
C25_Witness ==
    /\ ~connected
    /\ conn \in peerClosed
    /\ conn \notin live
    /\ \E i \in Sups : /\ sup[i].pc = "sleepLost"
                         /\ sup[i].delay = cfg.reconnect.initialDelay

\* C26: once every byte the peer wrote has been read, the messages that were
\* dispatched are the envelopes the peer sent, each one once and in order,
\* however the reads divided the bytes.
C26_StreamFraming ==
    stream.unread = <<>> => stream.dispatched = stream.sent

\* C27: a wait of the supervisor (the backoff after a failed Connect, the
\* wait after a lost connection) that is in progress once the context is
\* cancelled ends by the cancellation: the step that ends it terminates the
\* supervisor, which does not go on to the top of its loop as it does when
\* the timer expires.
C27_WaitEndsOnCancel ==
    [][\A i \in Sups :
          (/\ sup[i].pc \in {"backoff", "sleepLost"}
           /\ ctxDone
           /\ sup'[i].pc # sup[i].pc)
              => (sup'[i].pc = "returned" /\ sup'[i].cause = "ctx")]_vars

\* C28: a message that fails to decode is dropped.  The step in which the
\* reader takes it calls no handler and no executor, produces no outbound
\* envelope, leaves the queue, the connected flag and the transport as they
\* were, and puts the reader back at the top of its loop.
C28_UndecodableDropped ==
    [][\A t \in Handles :
          (/\ readers[t].pc = "read"
           /\ readers'[t].pc # "read"
           /\ ~rt'.in.ok)
              => /\ ~rt'.handled
                 /\ rt'.executor = "none"
                 /\ rt'.reply = NoEnv
                 /\ readers'[t].pc = "top"
                 /\ readers'[t].out = NoEnv
                 /\ sendChan' = sendChan
                 /\ wrote' = wrote
                 /\ transportVars' = transportVars]_vars

\* a connected reader has just dropped an undecodable message and is at the
\* top of its loop again
C28_Witness ==
    /\ rt.in = Malformed
    /\ ~rt.handled
    /\ connected
    /\ commandHandler
    /\ conn \in live
    /\ readers[conn].pc = "top"

(***************************************************************************)
(* The order of transmission: the session with the writer's receive and    *)
(* write as two steps.                                                     *)
(***************************************************************************)
NextOrder ==
    \/ StartOnce
    \/ \E h \in Handles : PeerClose(h)
    \/ \E i \in Sups : SupStep(i)
    \/ \E t \in Handles : ReadStep(t) \/ WriterTake(t) \/ WriterWrite(t)
                             \/ WriterWriteFail(t)

SpecOrder == Init /\ [][NextOrder]_vars

\* C29: within one connection the envelopes are transmitted in the order in
\* which they were enqueued: a writer that completes a write on the current
\* connection does so while no envelope that left the queue before its own,
\* during this same connection, is still waiting to be written.
C29_TransmitInOrder ==
    [][\A t \in Handles :
          (writers[t] = "write" /\ writers'[t] = "run")
              => \A k \in 1..(IndexOf(t) - 1) : inflight[k].h # conn]_vars

\* C30: the heartbeat envelope is enqueued only while the client is
\* connected: a step that appends a heartbeat to the queue is taken in a
\* state whose connected flag is set, and a tick that finds the flag clear
\* leaves the queue as it was.
C30_HeartbeatOnlyConnected ==
    [][/\ (/\ Len(sendChan') = Len(sendChan) + 1
           /\ sendChan'[Len(sendChan')] = Heartbeat) => connected
       /\ \A i \in Sups :
             (sup[i].pc = "wait" /\ sup'[i].pc # "wait" /\ ~connected)
                 => (sendChan' = sendChan /\ sup'[i].pc # "hbEnq")]_vars

\* C31: on both transports every live connection has a keepalive task: once
\* the pumps of the current connection have been started, a keepalive task
\* has been started for it as well; and a keepalive task writes its probe,
\* and so can fail on the write, only while the client is connected.
C31_KeepaliveTask ==
    /\ [](\A t \in Handles :
            (connected /\ conn = t /\ writers[t] # "none")
                => pingers[t] # "none")
    /\ [][\A t \in Handles :
             (pingers[t] = "run" /\ pingers'[t] = "exit" /\ ~ctxDone)
                 => connected]_vars

\* C32: the teardown of a reader that observed a read error closes only the
\* handle that reader was reading from, and clears the connected flag only
\* while that handle is the current one.
C32_ReaderTeardownOwnHandle ==
    [][\A t \in Handles :
          (readers[t].pc = "read" /\ readers'[t].pc = "exit")
              => /\ live \ live' \subseteq {readers[t].h}
                 /\ (connected /\ ~connected') => conn = readers[t].h]_vars

\* C33: at most one supervisor loop is active for a client at any time,
\* whatever the sequence of Start and Stop calls.
C33_OneSupervisor ==
    Cardinality({i \in Sups : sup[i].pc \notin {"none", "returned"}}) <= 1

\* C34: the outbound queue holds no envelope of an earlier connection when a
\* new connection becomes the connected one, so that nothing enqueued during
\* one connection is transmitted on a later one.
C34_QueueEmptyOnConnect ==
    [][(~connected /\ connected') => sendChan = <<>>]_vars

(***************************************************************************)
(* Cancellation: the session of a client that is started once and whose    *)
(* owner may cancel the context.  Every goroutine keeps being scheduled,   *)
(* and a select whose ctx.Done() case is ready again and again takes it:   *)
(* the 30s timer is not ready each time the loop comes back to the select. *)
(***************************************************************************)
NextCancel ==
    \/ StartOnce \/ CancelCtx
    \/ \E h \in Handles : PeerClose(h)
    \/ \E i \in Sups : SupStep(i) \/ SupCtxDone(i)
    \/ \E t \in Handles : ReadStep(t) \/ WriteStep(t) \/ PingStep(t)
                             \/ CtxStep(t)

FairCancel ==
    /\ \A i \in Sups : WF_vars(SupStep(i)) /\ SF_vars(SupCtxDone(i))
    /\ \A t \in Handles : WF_vars(ReadStep(t))

SpecCancel == Init /\ [][NextCancel]_vars /\ FairCancel

\* C35: once the context is cancelled the supervisor starts no new connect
\* attempt, and a supervisor that was started eventually has terminated with
\* the transport closed and the connected flag false, wherever the
\* cancellation found it.
C35_CancelTerminates ==
    /\ [][ctxDone => \A i \in Sups :
                        ~(sup[i].pc = "loop" /\ sup'[i].pc = "dial")]_vars
    /\ \A i \in Sups :
          (ctxDone /\ sup[i].pc # "none")
              ~> (sup[i].pc = "returned" /\ ~connected /\ conn \notin live)
    /\ \A i \in Sups :
          []((ctxDone /\ sup[i].pc = "returned") => [](sup[i].pc = "returned"))

\* the context was cancelled while the client was connected: the supervisor
\* took ctx.Done(), closed the transport and returned
C35_Witness ==
    /\ ctxDone
    /\ conn # NoHandle
    /\ ~connected
    /\ conn \notin live
    /\ \E i \in Sups : sup[i].pc = "returned" /\ sup[i].cause = "ctx"
                          /\ sup[i].h = conn

(***************************************************************************)
(* The outbound queue of a client that is started once and may be stopped  *)
(* while its peer sends a ping or a command.                               *)
(***************************************************************************)
QueueInbound ==
    {Message(ty, "7", Payload("map", "restart")) : ty \in {"ping", "custom"}}

NextQueue ==
    \/ StartOnce \/ StopRunning \/ StopDisconnect
    \/ \E i \in Sups : SupStep(i)
    \/ \E t \in Handles : ReadStep(t) \/ RouteStep(t, QueueInbound)
                             \/ WriteStep(t)

SpecQueue == Init /\ [][NextQueue]_vars

\* C36: SendCommand called while the connected flag is false adds nothing to
\* the outbound queue, and no envelope, a handler's response included, is
\* added to the queue while the client is not connected.
C36_EnqueueOnlyConnected ==
    [][/\ Len(sendChan') > Len(sendChan) => connected
       /\ \A i \in Sups :
             (/\ sup[i].pc \in {"identify", "wait"}
              /\ sup'[i].pc # sup[i].pc
              /\ ~connected)
                 => /\ sendChan' = sendChan
                    /\ sup'[i].pc \notin {"identifyEnq", "hbEnq"}]_vars

(***************************************************************************)
(* The backoff delay of one Connect failure after another, in the 64 bits  *)
(* of time.Duration.                                                       *)
(***************************************************************************)
DelayPolicies ==
    {[NoTimer EXCEPT !.initialDelay = Seconds(i), !.maxDelay = Seconds(60),
                     !.mult2 = m, !.maxAttempts = a] :
        i \in {1, 5, 90}, m \in {2, 3, 4, 20},
        a \in {DefaultMaxAttempts, MaxDelayAttempts}}

\* the policy the loop reads from the configuration
TimerStart(policy) ==
    /\ timer.pc = "none"
    /\ timer' = [policy EXCEPT !.pc = "loop"]
    /\ UNCHANGED <<cfg, codec, stream, inflight, clientVars, ctxDone, sup,
                   transportVars, sendChan, nextHandle, peerClosed, taskVars,
                   wrote, rt>>

\* Connect fails: reconnectAttempts++, give up or compute the delay
TimerFail ==
    /\ timer.pc \in {"loop", "backoff"}
    /\ LET n == timer.attempts + 1
       IN  timer' =
             IF n >= maxReconnectAttempts([reconnect |-> timer])
             THEN [timer EXCEPT !.pc = "returned", !.attempts = n]
             ELSE [timer EXCEPT !.pc = "backoff", !.attempts = n,
                                !.last = timer.delay,
                                !.delay = backoffDelay64(timer, n)]
    /\ UNCHANGED <<cfg, codec, stream, inflight, clientVars, ctxDone, sup,
                   transportVars, sendChan, nextHandle, peerClosed, taskVars,
                   wrote, rt>>

NextDelay ==
    \/ \E policy \in DelayPolicies : TimerStart(policy)
    \/ TimerFail

SpecDelay == Init /\ [][NextDelay]_vars

\* C37: for a multiplier of at least 1 the delay computed for an attempt is
\* at least min(initial_delay, max_delay) and at most max_delay, and is not
\* smaller than the delay of the attempt before: the multiplication never
\* wraps the 64-bit duration.
C37_DelayBounded ==
    timer.pc = "backoff" =>
        /\ ~Less64(timer.delay, Min64(timer.initialDelay, timer.maxDelay))
        /\ ~Less64(timer.maxDelay, timer.delay)
        /\ ~Negative64(timer.delay)
        /\ timer.attempts > 1 => ~Less64(timer.delay, timer.last)

\* C38: each transport handle is closed at most once, and the connected flag
\* is set only while the current handle is set and has not been closed by
\* this side, however the Disconnect calls of Stop, of the supervisor and of
\* a reader's teardown interleave.
C38_ClosedOnce ==
    /\ \A h \in Handles : closes[h] <= 1
    /\ connected => (conn \in Handles /\ conn \in live /\ closes[conn] = 0)

\* Stop and the reader's teardown have both called Disconnect on a
\* connection, and its handle was closed once
C38_Witness ==
    /\ conn \in Handles
    /\ ~connected
    /\ closes[conn] = 1
    /\ ret = StopNil
    /\ stopPc = "idle"
    /\ readers[conn].pc = "exit"

====
